---- MODULE Spec2Model ----
(***************************************************************************)
(* EcoFinds marketplace backend: the checkout routes (POST /api/purchase,  *)
(* POST /api/buy-now) and the cart routes, over the single shared sqlite3  *)
(* connection `db`.  Every db.run/db.get/db.all call is one statement; a   *)
(* statement is scheduled on the connection, executed against the tables,  *)
(* and then completed on the event loop, where its callback runs.          *)
(***************************************************************************)
EXTENDS Integers, Sequences, FiniteSets, TLC

\* ---------------------------------------------------------------- bounds
NumUsers == 3
NumProducts == 2
MaxReq == 2
MaxBatch == 2
MaxFaults == 1

Users == 1..NumUsers
Products == 1..NumProducts

\* seller of the listings the database starts with
OwnerOf(p) == IF p = 1 THEN 1 ELSE 2
PriceOf(p) == 10 * p
\* the payment_method of a request body; "" stands for a missing value
PaymentMethods == {"paypal", ""}
\* the price an owner's edit sets on listing p
EditPriceOf(p) == PriceOf(p) + 5

VARIABLES
  products,   \* products table: id -> row (exists, user_id, price, status)
  cart,       \* cart table: <<user_id, product_id>> -> number of rows holding that pair
  purchases,  \* purchases table: set of rows [id, buyer_id, product_id, seller_id, price]
  nextId,     \* AUTOINCREMENT counter of purchases
  inTxn,      \* a transaction is open on the connection
  snap,       \* the tables as they were at BEGIN (what ROLLBACK restores)
  queue,      \* Database::queue: calls waiting to be started
  inflight,   \* statements started and not yet completed (Database::pending)
  locked,     \* Database::locked
  reqs,       \* the requests received so far, with their handler-local variables
  crashed,    \* the process died on an uncaught exception
  faults      \* statements the store has failed so far (disk full, I/O error)

vars == <<products, cart, purchases, nextId, inTxn, snap, queue, inflight, locked, reqs, crashed,
          faults>>

\* ---------------------------------------------------------------- tables
NoRow == [exists |-> FALSE, user_id |-> 0, price |-> 0, status |-> "none"]
\* the cart rows holding each pair of S once
CartOf(S) == [c \in S |-> 1]
CartPairs(tb) == DOMAIN tb.cart
NoSnap == [products |-> <<>>, cart |-> CartOf({}), purchases |-> {}, nextId |-> 0]
Tables == [products |-> products, cart |-> cart, purchases |-> purchases, nextId |-> nextId]

\* SELECT * FROM products WHERE id = ? AND status = "available"
SelectAvailable(tb, pid) ==
  IF pid \in DOMAIN tb.products /\ tb.products[pid].exists /\ tb.products[pid].status = "available"
  THEN tb.products[pid] ELSE NoRow

\* INSERT INTO purchases (buyer_id, product_id, seller_id, price) VALUES (?, ?, ?, ?)
InsertPurchase(tb, s) ==
  [tb EXCEPT !.purchases = @ \cup {[id |-> tb.nextId, buyer_id |-> s.user, product_id |-> s.pid,
                                     seller_id |-> s.seller, price |-> s.price]},
             !.nextId = @ + 1]

\* UPDATE products SET status = "sold"  (no WHERE clause)
UpdateSold_All(tb, pid) ==
  [tb EXCEPT !.products = [p \in DOMAIN tb.products |->
                             IF tb.products[p].exists
                               THEN [tb.products[p] EXCEPT !.status = "sold"]
                               ELSE tb.products[p]]]

\* UPDATE products SET status = "sold" WHERE id = ?
UpdateSold(tb, pid) ==
  IF pid \in DOMAIN tb.products /\ tb.products[pid].exists
  THEN [tb EXCEPT !.products[pid].status = "sold"] ELSE tb

\* DELETE FROM cart WHERE product_id = ?
DeleteCart_AnyUser(tb, u, pid) ==
  [tb EXCEPT !.cart = [c \in {d \in CartPairs(tb) : d[2] # pid} |-> tb.cart[c]]]

\* DELETE FROM cart WHERE user_id = ? AND product_id = ?
DeleteCart(tb, u, pid) ==
  [tb EXCEPT !.cart = [c \in CartPairs(tb) \ {<<u, pid>>} |-> tb.cart[c]]]

\* a plain INSERT INTO cart on a table without UNIQUE(user_id, product_id)
InsertCart_NoReplace(tb, u, pid) ==
  [tb EXCEPT !.cart = [c \in CartPairs(tb) \cup {<<u, pid>>} |->
                         IF c = <<u, pid>>
                           THEN (IF c \in CartPairs(tb) THEN tb.cart[c] + 1 ELSE 1)
                           ELSE tb.cart[c]]]

\* INSERT OR REPLACE INTO cart (user_id, product_id, quantity) VALUES (?, ?, 1):
\* the rows that conflict on UNIQUE(user_id, product_id) are deleted, then the row is inserted
InsertCart(tb, u, pid) ==
  [tb EXCEPT !.cart = [c \in CartPairs(tb) \cup {<<u, pid>>} |->
                         IF c = <<u, pid>> THEN 1 ELSE tb.cart[c]]]

\* the delete with purchases.product_id declared ON DELETE CASCADE and foreign keys enforced
DeleteProductRow_Cascade(tb, u, pid) ==
  IF pid \in DOMAIN tb.products /\ tb.products[pid].exists /\ tb.products[pid].user_id = u
  THEN [tb EXCEPT !.products[pid] = NoRow,
                  !.purchases = {row \in @ : row.product_id # pid}]
  ELSE tb

\* DELETE FROM products WHERE id = ? AND user_id = ?  (foreign keys are not enforced)
DeleteProductRow(tb, u, pid) ==
  IF pid \in DOMAIN tb.products /\ tb.products[pid].exists /\ tb.products[pid].user_id = u
  THEN [tb EXCEPT !.products[pid] = NoRow] ELSE tb

\* SELECT * FROM products WHERE id = ? AND user_id = ?
SelectOwned(tb, u, pid) ==
  IF pid \in DOMAIN tb.products /\ tb.products[pid].exists /\ tb.products[pid].user_id = u
  THEN tb.products[pid] ELSE NoRow

\* UPDATE products SET title = ?, description = ?, price = ?, ... WHERE id = ?
UpdateProductRow(tb, pid, price) ==
  IF pid \in DOMAIN tb.products /\ tb.products[pid].exists
  THEN [tb EXCEPT !.products[pid].price = price] ELSE tb

\* SELECT ... FROM cart c JOIN products p ... WHERE c.user_id = ? AND p.status = 'available'
SelectCart(tb, u) ==
  {pid \in DOMAIN tb.products :
     <<u, pid>> \in CartPairs(tb) /\ tb.products[pid].exists /\ tb.products[pid].status = "available"}

\* SELECT p.* ... FROM purchases p JOIN products pr ON p.product_id = pr.id
\* JOIN users u ON p.seller_id = u.id WHERE p.buyer_id = ?  (the ids of the rows returned)
SelectPurchases(tb, u) ==
  {row.id : row \in {x \in tb.purchases :
                       /\ x.buyer_id = u
                       /\ x.product_id \in DOMAIN tb.products /\ tb.products[x.product_id].exists
                       /\ x.seller_id \in Users}}

\* ---------------------------------------------------------------- statements
NoRes == [err |-> FALSE, row |-> NoRow, lastID |-> 0, changes |-> 0, list |-> {}]

Stmt(r, op, idx, pid, u, hasCb) ==
  [req |-> r, op |-> op, idx |-> idx, pid |-> pid, user |-> u, seller |-> 0, price |-> 0,
   cb |-> hasCb, excl |-> FALSE]

InsertStmt(r, idx, pid, u, row) ==
  [Stmt(r, "INSERT_PURCHASE", idx, pid, u, TRUE) EXCEPT !.seller = row.user_id, !.price = row.price]

Started(s) == [s |-> s, phase |-> "started", res |-> NoRes]

conn == [q |-> queue, fl |-> inflight, lk |-> locked]

\* Database::Schedule: a statement issued while the connection is locked, or in
\* serialized mode, with statements pending, waits in the queue; otherwise it starts at once.
Schedule(c, s, ser) ==
  IF (c.lk \/ ser) /\ c.fl # {}
  THEN [c EXCEPT !.q = Append(@, [s EXCEPT !.excl = ser])]
  ELSE [c EXCEPT !.lk = FALSE, !.fl = @ \cup {Started(s)}]

RECURSIVE ScheduleAll(_, _, _)
ScheduleAll(c, ss, ser) ==
  IF ss = <<>> THEN c ELSE ScheduleAll(Schedule(c, Head(ss), ser), Tail(ss), ser)

\* Database::Process: start queued calls in order; an exclusive call waits until nothing is pending.
RECURSIVE Process(_)
Process(c) ==
  IF (~c.lk \/ c.fl = {}) /\ c.q # <<>>
  THEN LET call == Head(c.q) IN
       IF call.excl /\ c.fl # {} THEN c
       ELSE Process([q |-> Tail(c.q), lk |-> call.excl, fl |-> c.fl \cup {Started(call)}])
  ELSE c

SetConn(c) == queue' = c.q /\ inflight' = c.fl /\ locked' = c.lk


\* ---------------------------------------------------------------- sqlite: one statement against the connection
\* A statement runs in the open transaction if there is one, else it commits by itself.
\* BEGIN inside a transaction, and COMMIT or ROLLBACK outside one, are errors.
ExecResult(s) ==
  LET tb == Tables
      same == [tb |-> tb, txn |-> inTxn, snap |-> snap, res |-> NoRes]
      fail == [same EXCEPT !.res.err = TRUE]
  IN CASE s.op = "BEGIN" ->
            IF inTxn THEN fail ELSE [same EXCEPT !.txn = TRUE, !.snap = tb]
       [] s.op = "COMMIT" ->
            IF ~inTxn THEN fail ELSE [same EXCEPT !.txn = FALSE, !.snap = NoSnap]
       [] s.op = "ROLLBACK" ->
            IF ~inTxn THEN fail ELSE [same EXCEPT !.tb = snap, !.txn = FALSE, !.snap = NoSnap]
       [] s.op = "SELECT_AVAILABLE" ->
            [same EXCEPT !.res.row = SelectAvailable(tb, s.pid)]
       [] s.op = "INSERT_PURCHASE" ->
            [same EXCEPT !.tb = InsertPurchase(tb, s), !.res.lastID = tb.nextId]
       [] s.op = "UPDATE_SOLD" ->
            [same EXCEPT !.tb = UpdateSold(tb, s.pid)]
       [] s.op = "DELETE_CART" ->
            [same EXCEPT !.tb = DeleteCart(tb, s.user, s.pid)]
       [] s.op = "INSERT_CART" ->
            [same EXCEPT !.tb = InsertCart(tb, s.user, s.pid)]
       [] s.op = "DELETE_PRODUCT" ->
            [same EXCEPT !.tb = DeleteProductRow(tb, s.user, s.pid),
                         !.res.changes = IF DeleteProductRow(tb, s.user, s.pid) = tb THEN 0 ELSE 1]
       [] s.op = "SELECT_CART" ->
            [same EXCEPT !.res.list = SelectCart(tb, s.user)]
       [] s.op = "SELECT_PURCHASES" ->
            [same EXCEPT !.res.list = SelectPurchases(tb, s.user)]
       [] s.op = "SELECT_OWNED" ->
            [same EXCEPT !.res.row = SelectOwned(tb, s.user, s.pid)]
       [] s.op = "UPDATE_PRODUCT" ->
            [same EXCEPT !.tb = UpdateProductRow(tb, s.pid, s.price)]

SetTables(tb) ==
  /\ products' = tb.products
  /\ cart' = tb.cart
  /\ purchases' = tb.purchases
  /\ nextId' = tb.nextId

\* ---------------------------------------------------------------- requests
NoResp == [code |-> 0, msg |-> "", purchased |-> 0, details |-> <<>>, purchase_id |-> 0,
           product |-> NoRow, payment_method |-> "", total_amount |-> 0, list |-> {}]

Json(code, msg) == [NoResp EXCEPT !.code = code, !.msg = msg]

\* kind, the authenticated user (req.user.userId), the body, and the handler's local variables.
\* The h_ fields are history, written for the properties and never read by the handlers:
\* h_rows the ids of the purchases rows the request inserted; and, as of the arrival of a
\* checkout request, h_tables the tables (when no request was in flight), h_avail the products
\* of the request that were available, h_with the requests in flight and h_soldDone the
\* products sold by a request that was over; as of the arrival of a GET /api/cart, h_after the
\* products this user had been told were bought.  Of the request's own statements: h_db one
\* was issued, h_fault the store failed one, h_failed and h_passed the positions of the batch
\* whose lookup or insert failed and whose insert succeeded, h_sold the <<product, owner,
\* price>> as of the statement that turned the product's status to 'sold', h_wrote one changed
\* the purchases table, h_prod the products of which one changed the existence, owner or
\* price, h_other one changed something else than the caller's cart entry for the product,
\* h_seen one ran when the purchases table held a row, h_begins and h_ends the number of
\* BEGIN and of COMMIT or ROLLBACK issued, h_sawSold the products one of its lookups found with
\* status 'sold', h_out one changed something outside the frame of a purchase batch (the status
\* of its products, purchases rows for them, the buyer's cart rows for them), h_double a
\* second response was attempted.
NewReq(kind, u, ids, pm) ==
  [kind |-> kind, user |-> u, product_ids |-> ids, payment_method |-> pm, price |-> 0,
   completedPurchases |-> 0, errors |-> <<>>, product |-> NoRow, lastID |-> 0,
   resp |-> NoResp, h_rows |-> {}, h_tables |-> NoSnap, h_avail |-> {}, h_with |-> {},
   h_after |-> {}, h_soldDone |-> {}, h_db |-> FALSE, h_fault |-> FALSE, h_failed |-> {},
   h_passed |-> {}, h_sold |-> {}, h_wrote |-> FALSE, h_seen |-> FALSE, h_prod |-> {},
   h_other |-> FALSE, h_begins |-> 0, h_ends |-> 0, h_double |-> FALSE, h_sawSold |-> {},
   h_out |-> FALSE, h_orphan |-> FALSE]

Succeeded(rq) == rq.kind \in {"purchase", "buyNow"} /\ rq.resp.code = 200

IdsOf(rq) == {rq.product_ids[i] : i \in DOMAIN rq.product_ids}

BoughtBy(u) ==
  UNION {IdsOf(reqs[r]) : r \in {x \in DOMAIN reqs : reqs[x].user = u /\ Succeeded(reqs[x])}}

\* res.json / res.status(..).json: a second response on the same request throws
Respond(out, resp) ==
  IF out.req.resp.code # 0 THEN [out EXCEPT !.crash = TRUE, !.req.h_double = TRUE]
  ELSE [out EXCEPT !.req.resp = resp]

Out(rq) == [req |-> rq, sched |-> <<>>, ser |-> FALSE, crash |-> FALSE]

\* the product_ids of a request body; <<>> stands for a missing, non-array or empty value
Batches == UNION {[1..n -> Products] : n \in 0..MaxBatch}

\* the product_id of a request body; 0 stands for a missing value
ProductIds == Products \cup {0}


\* ---------------------------------------------------------------- callbacks of POST /api/purchase
PurchaseStmts(r, u, ids) ==
  <<Stmt(r, "BEGIN", 0, 0, u, FALSE)>> \o
  [i \in 1..Len(ids) |-> Stmt(r, "SELECT_AVAILABLE", i, ids[i], u, TRUE)]

\* the lookup callback without its `product.user_id === req.user.userId` branch
PurchaseLookupCb_NoOwnerCheck(e, rq) ==
  LET s == e.s
      row == e.res.row
  IN IF e.res.err \/ ~row.exists
       THEN Out([rq EXCEPT !.errors = Append(@, [kind |-> "unavailable", pid |-> s.pid])])
     ELSE [Out(rq) EXCEPT !.sched = <<InsertStmt(s.req, s.idx, s.pid, rq.user, row)>>]

\* callback of db.get('SELECT * FROM products WHERE id = ? AND status = "available"')
PurchaseLookupCb(e, rq) ==
  LET s == e.s
      row == e.res.row
  IN IF e.res.err \/ ~row.exists
       THEN Out([rq EXCEPT !.errors = Append(@, [kind |-> "unavailable", pid |-> s.pid])])
     ELSE IF row.user_id = rq.user
       THEN Out([rq EXCEPT !.errors = Append(@, [kind |-> "own", pid |-> s.pid])])
     ELSE [Out(rq) EXCEPT !.sched = <<InsertStmt(s.req, s.idx, s.pid, rq.user, row)>>]

\* a completion test on the inserts alone
AllProcessed_AnyInserted(rq) == rq.completedPurchases >= 1

\* a completion test that fires as soon as one id has been processed
AllProcessed_AnyDone(rq) == rq.completedPurchases + Len(rq.errors) >= 1

\* the completion test at the end of the insert callback
AllProcessed(rq) == rq.completedPurchases + Len(rq.errors) = Len(rq.product_ids)

\* callback of db.run('INSERT INTO purchases ...')
PurchaseInsertCb(e, rq) ==
  LET s == e.s
      rq1 == IF e.res.err
               THEN [rq EXCEPT !.errors = Append(@, [kind |-> "insert", pid |-> s.pid])]
               ELSE [rq EXCEPT !.completedPurchases = @ + 1]
      sched1 == IF e.res.err THEN <<>>
                ELSE <<Stmt(s.req, "UPDATE_SOLD", s.idx, s.pid, rq.user, FALSE),
                       Stmt(s.req, "DELETE_CART", s.idx, s.pid, rq.user, FALSE)>>
      out1 == [Out(rq1) EXCEPT !.sched = sched1]
  IN IF AllProcessed(rq1)
       THEN IF Len(rq1.errors) > 0
              THEN Respond([out1 EXCEPT !.sched = @ \o <<Stmt(s.req, "ROLLBACK", 0, 0, rq.user, FALSE)>>],
                           [Json(400, "Purchase failed") EXCEPT !.details = rq1.errors])
              ELSE Respond([out1 EXCEPT !.sched = @ \o <<Stmt(s.req, "COMMIT", 0, 0, rq.user, FALSE)>>],
                           [Json(200, "Purchase completed successfully")
                              EXCEPT !.purchased = rq1.completedPurchases])
       ELSE out1

\* ---------------------------------------------------------------- callbacks of POST /api/buy-now
\* callback of the product lookup
BuyNowLookupCb(e, rq) ==
  LET s == e.s
      row == e.res.row
  IN IF e.res.err THEN Respond(Out(rq), Json(500, "Database error"))
     ELSE IF ~row.exists THEN Respond(Out(rq), Json(404, "Product not found or unavailable"))
     ELSE IF row.user_id = rq.user THEN Respond(Out(rq), Json(400, "Cannot purchase your own product"))
     ELSE [Out([rq EXCEPT !.product = row])
             EXCEPT !.sched = <<Stmt(s.req, "BEGIN", 0, 0, rq.user, FALSE),
                                InsertStmt(s.req, 1, s.pid, rq.user, row)>>,
                    !.ser = TRUE]

\* the insert callback committing at once, without the status update
BuyNowInsertCb_NoStatusUpdate(e, rq) ==
  LET s == e.s
  IN IF e.res.err
       THEN Respond([Out(rq) EXCEPT !.sched = <<Stmt(s.req, "ROLLBACK", 0, 0, rq.user, FALSE)>>],
                    Json(500, "Purchase failed"))
       ELSE Respond([Out([rq EXCEPT !.lastID = e.res.lastID])
                       EXCEPT !.sched = <<Stmt(s.req, "COMMIT", 0, 0, rq.user, FALSE)>>],
                    [Json(200, "Purchase successful! Your item has been booked.")
                       EXCEPT !.purchase_id = e.res.lastID, !.product = rq.product,
                              !.payment_method = rq.payment_method,
                              !.total_amount = rq.product.price])

\* callback of the purchases insert
BuyNowInsertCb(e, rq) ==
  LET s == e.s
  IN IF e.res.err
       THEN Respond([Out(rq) EXCEPT !.sched = <<Stmt(s.req, "ROLLBACK", 0, 0, rq.user, FALSE)>>],
                    Json(500, "Purchase failed"))
       ELSE [Out([rq EXCEPT !.lastID = e.res.lastID])
               EXCEPT !.sched = <<Stmt(s.req, "UPDATE_SOLD", 1, s.pid, rq.user, TRUE)>>]

\* the update callback answering its error without db.run('ROLLBACK')
BuyNowUpdateCb_NoRollback(e, rq) ==
  LET s == e.s
  IN IF e.res.err
       THEN Respond(Out(rq), Json(500, "Failed to update product status"))
       ELSE Respond([Out(rq) EXCEPT !.sched = <<Stmt(s.req, "COMMIT", 0, 0, rq.user, FALSE)>>],
                    [Json(200, "Purchase successful! Your item has been booked.")
                       EXCEPT !.purchase_id = rq.lastID, !.product = rq.product,
                              !.payment_method = rq.payment_method,
                              !.total_amount = rq.product.price])

\* callback of the status update
BuyNowUpdateCb(e, rq) ==
  LET s == e.s
  IN IF e.res.err
       THEN Respond([Out(rq) EXCEPT !.sched = <<Stmt(s.req, "ROLLBACK", 0, 0, rq.user, FALSE)>>],
                    Json(500, "Failed to update product status"))
       ELSE Respond([Out(rq) EXCEPT !.sched = <<Stmt(s.req, "COMMIT", 0, 0, rq.user, FALSE)>>],
                    [Json(200, "Purchase successful! Your item has been booked.")
                       EXCEPT !.purchase_id = rq.lastID, !.product = rq.product,
                              !.payment_method = rq.payment_method,
                              !.total_amount = rq.product.price])

\* ---------------------------------------------------------------- callbacks of the cart routes
\* the lookup callback without its `product.user_id === req.user.userId` test
AddToCartLookupCb_NoOwnerCheck(e, rq) ==
  LET s == e.s
      row == e.res.row
  IN IF e.res.err THEN Respond(Out(rq), Json(500, "Database error"))
     ELSE IF ~row.exists THEN Respond(Out(rq), Json(404, "Product not found or unavailable"))
     ELSE [Out(rq) EXCEPT !.sched = <<Stmt(s.req, "INSERT_CART", 1, s.pid, rq.user, TRUE)>>]

\* callback of the product lookup of POST /api/cart
AddToCartLookupCb(e, rq) ==
  LET s == e.s
      row == e.res.row
  IN IF e.res.err THEN Respond(Out(rq), Json(500, "Database error"))
     ELSE IF ~row.exists THEN Respond(Out(rq), Json(404, "Product not found or unavailable"))
     ELSE IF row.user_id = rq.user
       THEN Respond(Out(rq), Json(400, "Cannot add your own product to cart"))
     ELSE [Out(rq) EXCEPT !.sched = <<Stmt(s.req, "INSERT_CART", 1, s.pid, rq.user, TRUE)>>]

AddToCartInsertCb(e, rq) ==
  IF e.res.err THEN Respond(Out(rq), Json(500, "Failed to add to cart"))
  ELSE Respond(Out(rq), Json(200, "Product added to cart"))

\* callback of db.all(query, [req.user.userId]) of GET /api/purchases
GetPurchasesCb(e, rq) ==
  IF e.res.err THEN Respond(Out(rq), Json(500, "Failed to fetch purchase history"))
  ELSE Respond(Out(rq), [Json(200, "") EXCEPT !.list = e.res.list])

GetCartCb(e, rq) ==
  IF e.res.err THEN Respond(Out(rq), Json(500, "Failed to fetch cart"))
  ELSE Respond(Out(rq), [Json(200, "") EXCEPT !.list = e.res.list])

\* callback of db.run('DELETE FROM cart WHERE user_id = ? AND product_id = ?') of DELETE /api/cart/:productId
RemoveFromCartCb(e, rq) ==
  IF e.res.err THEN Respond(Out(rq), Json(500, "Failed to remove from cart"))
  ELSE Respond(Out(rq), Json(200, "Product removed from cart"))

\* ---------------------------------------------------------------- callbacks of PUT /api/products/:id
UpdateProductLookupCb(e, rq) ==
  LET s == e.s
      row == e.res.row
  IN IF e.res.err THEN Respond(Out(rq), Json(500, "Database error"))
     ELSE IF ~row.exists THEN Respond(Out(rq), Json(404, "Product not found or unauthorized"))
     ELSE [Out(rq) EXCEPT !.sched =
             <<[Stmt(s.req, "UPDATE_PRODUCT", 1, s.pid, rq.user, TRUE) EXCEPT !.price = rq.price]>>]

UpdateProductCb(e, rq) ==
  IF e.res.err THEN Respond(Out(rq), Json(500, "Failed to update product"))
  ELSE Respond(Out(rq), Json(200, "Product updated successfully"))

\* ---------------------------------------------------------------- callback of DELETE /api/products/:id
DeleteProductCb(e, rq) ==
  IF e.res.err THEN Respond(Out(rq), Json(500, "Failed to delete product"))
  ELSE IF e.res.changes = 0 THEN Respond(Out(rq), Json(404, "Product not found or unauthorized"))
  ELSE Respond(Out(rq), Json(200, "Product deleted successfully"))

Callback(e, rq) ==
  CASE rq.kind = "purchase" /\ e.s.op = "SELECT_AVAILABLE" -> PurchaseLookupCb(e, rq)
    [] rq.kind = "purchase" /\ e.s.op = "INSERT_PURCHASE"  -> PurchaseInsertCb(e, rq)
    [] rq.kind = "buyNow"   /\ e.s.op = "SELECT_AVAILABLE" -> BuyNowLookupCb(e, rq)
    [] rq.kind = "buyNow"   /\ e.s.op = "INSERT_PURCHASE"  -> BuyNowInsertCb(e, rq)
    [] rq.kind = "buyNow"   /\ e.s.op = "UPDATE_SOLD"      -> BuyNowUpdateCb(e, rq)
    [] rq.kind = "addToCart" /\ e.s.op = "SELECT_AVAILABLE" -> AddToCartLookupCb(e, rq)
    [] rq.kind = "addToCart" /\ e.s.op = "INSERT_CART"     -> AddToCartInsertCb(e, rq)
    [] rq.kind = "getCart"  /\ e.s.op = "SELECT_CART"      -> GetCartCb(e, rq)
    [] rq.kind = "getPurchases" /\ e.s.op = "SELECT_PURCHASES" -> GetPurchasesCb(e, rq)
    [] rq.kind = "deleteProduct" /\ e.s.op = "DELETE_PRODUCT" -> DeleteProductCb(e, rq)
    [] rq.kind = "removeFromCart" /\ e.s.op = "DELETE_CART" -> RemoveFromCartCb(e, rq)
    [] rq.kind = "updateProduct" /\ e.s.op = "SELECT_OWNED" -> UpdateProductLookupCb(e, rq)
    [] rq.kind = "updateProduct" /\ e.s.op = "UPDATE_PRODUCT" -> UpdateProductCb(e, rq)

\* ---------------------------------------------------------------- initial state
\* the cart the database starts with: every user holds the first listing (and the last user
\* the second one too) that is not the user's own
ValidCartPairs == {c \in Users \X Products : OwnerOf(c[2]) # c[1]}
InitialCarts == {CartOf({c \in ValidCartPairs : c[2] = 1 \/ c[1] = NumUsers})}

Init ==
  /\ products = [p \in Products |->
                   [exists |-> TRUE, user_id |-> OwnerOf(p), price |-> PriceOf(p), status |-> "available"]]
  /\ cart \in InitialCarts
  /\ purchases = {}
  /\ nextId = 1
  /\ inTxn = FALSE
  /\ snap = NoSnap
  /\ queue = <<>>
  /\ inflight = {}
  /\ locked = FALSE
  /\ reqs = <<>>
  /\ crashed = FALSE
  /\ faults = 0

\* ---------------------------------------------------------------- actions: a request arrives
HasStatements(r) ==
  \/ \E e \in inflight : e.s.req = r
  \/ \E i \in DOMAIN queue : queue[i].req = r

\* a request is in flight from its arrival until it is answered and its last statement completed
InFlight(r) == ~crashed /\ (reqs[r].resp.code = 0 \/ HasStatements(r))

SoldAndDone ==
  {p \in Products : products[p].status = "sold" /\
     \E r \in DOMAIN reqs : Succeeded(reqs[r]) /\ p \in IdsOf(reqs[r]) /\ ~InFlight(r)}

History(rq) ==
  IF rq.kind = "getCart" THEN [rq EXCEPT !.h_after = BoughtBy(rq.user)]
  ELSE IF rq.kind \in {"purchase", "buyNow"} THEN
    [rq EXCEPT !.h_tables = IF \E r \in DOMAIN reqs : InFlight(r) THEN NoSnap ELSE Tables,
               !.h_avail = {p \in IdsOf(rq) : products[p].status = "available"},
               !.h_with = {r \in DOMAIN reqs : InFlight(r)},
               !.h_soldDone = SoldAndDone]
  ELSE IF rq.kind = "getPurchases" THEN [rq EXCEPT !.h_with = {r \in DOMAIN reqs : InFlight(r)}]
  ELSE IF rq.kind \in {"addToCart", "removeFromCart"} THEN
    [rq EXCEPT !.h_tables = IF \E r \in DOMAIN reqs : InFlight(r) THEN NoSnap ELSE Tables,
               !.h_with = {r \in DOMAIN reqs : InFlight(r)}]
  ELSE rq

\* the number of statements of ss whose operation is one of ops
CountOps(ss, ops) == Cardinality({i \in DOMAIN ss : ss[i].op \in ops})

\* the handler runs up to its first return to the event loop: it issues its statements
Arrive(rq, stmts, ser) ==
  /\ ~crashed
  /\ Len(reqs) < MaxReq
  /\ reqs' = Append(reqs, [History(rq) EXCEPT !.h_db = stmts # <<>>,
                                               !.h_begins = CountOps(stmts, {"BEGIN"})])
  /\ SetConn(ScheduleAll(conn, stmts, ser))
  /\ UNCHANGED <<products, cart, purchases, nextId, inTxn, snap, crashed, faults>>

\* the handler returns res.status(code).json({ error }) before any db call
Reject(rq, code, msg) == Arrive([rq EXCEPT !.resp = Json(code, msg)], <<>>, FALSE)

\* POST /api/purchase {product_ids}
Purchase(u, ids) ==
  IF ids = <<>>
    THEN Reject(NewReq("purchase", u, ids, ""), 400, "Product IDs array is required")
    ELSE Arrive(NewReq("purchase", u, ids, ""), PurchaseStmts(Len(reqs) + 1, u, ids), TRUE)

\* POST /api/buy-now without its two `if (!...) return res.status(400)` tests
BuyNow_NoValidation(u, pid, pm) ==
  Arrive(NewReq("buyNow", u, IF pid = 0 THEN <<>> ELSE <<pid>>, pm),
         <<Stmt(Len(reqs) + 1, "SELECT_AVAILABLE", 1, pid, u, TRUE)>>, FALSE)

\* POST /api/buy-now {product_id, payment_method}
BuyNow(u, pid, pm) ==
  LET rq == NewReq("buyNow", u, IF pid = 0 THEN <<>> ELSE <<pid>>, pm)
  IN IF pid = 0 THEN Reject(rq, 400, "Product ID is required")
     ELSE IF pm = "" THEN Reject(rq, 400, "Payment method is required")
     ELSE Arrive(rq, <<Stmt(Len(reqs) + 1, "SELECT_AVAILABLE", 1, pid, u, TRUE)>>, FALSE)

\* POST /api/cart {product_id}
AddToCart(u, pid) ==
  LET rq == NewReq("addToCart", u, IF pid = 0 THEN <<>> ELSE <<pid>>, "")
  IN IF pid = 0 THEN Reject(rq, 400, "Product ID is required")
     ELSE Arrive(rq, <<Stmt(Len(reqs) + 1, "SELECT_AVAILABLE", 1, pid, u, TRUE)>>, FALSE)

\* DELETE /api/cart/:productId
RemoveFromCart(u, pid) ==
  Arrive(NewReq("removeFromCart", u, <<pid>>, ""),
         <<Stmt(Len(reqs) + 1, "DELETE_CART", 1, pid, u, TRUE)>>, FALSE)

\* GET /api/purchases
GetPurchases(u) ==
  Arrive(NewReq("getPurchases", u, <<>>, ""),
         <<Stmt(Len(reqs) + 1, "SELECT_PURCHASES", 1, 0, u, TRUE)>>, FALSE)

\* GET /api/cart
GetCart(u) ==
  Arrive(NewReq("getCart", u, <<>>, ""),
         <<Stmt(Len(reqs) + 1, "SELECT_CART", 1, 0, u, TRUE)>>, FALSE)

\* PUT /api/products/:id {title, price, ...}; price 0 stands for a body validateProductData refuses
UpdateProduct(u, pid, price) ==
  LET rq == [NewReq("updateProduct", u, <<pid>>, "") EXCEPT !.price = price]
  IN IF price <= 0 THEN Reject(rq, 400, "Title and valid price are required")
     ELSE Arrive(rq, <<Stmt(Len(reqs) + 1, "SELECT_OWNED", 1, pid, u, TRUE)>>, FALSE)

\* DELETE /api/products/:id
DeleteProduct(u, pid) ==
  Arrive(NewReq("deleteProduct", u, <<pid>>, ""),
         <<Stmt(Len(reqs) + 1, "DELETE_PRODUCT", 1, pid, u, TRUE)>>, FALSE)

\* ---------------------------------------------------------------- actions: the connection
\* existence, owner and price of a products row
Core(row) == <<row.exists, row.user_id, row.price>>

\* the step from tables t to tables t2 changes something else than the status of a product
\* of batch rq, a purchases row of its buyer for one of them, or the buyer's cart row for one
OutOfFrame(rq, t, t2) ==
  \/ \E p \in Products : t2.products[p] # t.products[p] /\
        (p \notin IdsOf(rq) \/ Core(t2.products[p]) # Core(t.products[p]))
  \/ ~(t.purchases \subseteq t2.purchases)
  \/ \E row \in t2.purchases \ t.purchases :
        row.product_id \notin IdsOf(rq) \/ row.buyer_id # rq.user
  \/ ~(CartPairs(t2) \subseteq CartPairs(t))
  \/ \E c \in CartPairs(t) :
        IF c \in CartPairs(t2) THEN t2.cart[c] # t.cart[c]
        ELSE c[1] # rq.user \/ c[2] \notin IdsOf(rq)

\* the history of request rq after its statement e ran on tables tb with outcome x
ExecHistory(rq, e, tb, x) ==
  LET s == e.s
      checkout == rq.kind \in {"purchase", "buyNow"}
  IN [rq EXCEPT
       !.h_rows = IF s.op = "INSERT_PURCHASE" THEN @ \cup {x.res.lastID} ELSE @,
       !.h_failed = IF rq.kind = "purchase" /\ s.op = "SELECT_AVAILABLE" /\
                       (~x.res.row.exists \/ x.res.row.user_id = rq.user)
                      THEN @ \cup {s.idx} ELSE @,
       !.h_passed = IF rq.kind = "purchase" /\ s.op = "INSERT_PURCHASE" THEN @ \cup {s.idx} ELSE @,
       !.h_sold = IF s.op = "UPDATE_SOLD" /\ tb.products[s.pid].status = "available"
                    THEN @ \cup {<<s.pid, tb.products[s.pid].user_id, tb.products[s.pid].price>>}
                    ELSE @,
       !.h_wrote = @ \/ (~checkout /\ x.tb.purchases # tb.purchases),
       !.h_prod = @ \cup {p \in Products : Core(x.tb.products[p]) # Core(tb.products[p])},
       !.h_seen = @ \/ (~checkout /\ tb.purchases # {}),
       !.h_sawSold = IF s.op = "SELECT_AVAILABLE" /\ s.pid \in DOMAIN tb.products /\
                          tb.products[s.pid].status = "sold"
                       THEN @ \cup {s.pid} ELSE @,
       !.h_out = @ \/ (rq.kind = "purchase" /\ OutOfFrame(rq, tb, x.tb)),
       !.h_other = @ \/ (/\ rq.kind = "removeFromCart"
                         /\ \/ x.tb.products # tb.products
                            \/ x.tb.purchases # tb.purchases
                            \/ \E c \in CartPairs(tb) \ {<<rq.user, s.pid>>} :
                                 c \notin CartPairs(x.tb) \/ x.tb.cart[c] # tb.cart[c])]

\* a started statement runs against the database
Exec(e) ==
  /\ ~crashed
  /\ e \in inflight
  /\ e.phase = "started"
  /\ LET x == ExecResult(e.s) IN
       /\ SetTables(x.tb)
       /\ inTxn' = x.txn
       /\ snap' = x.snap
       /\ inflight' = (inflight \ {e}) \cup {[e EXCEPT !.phase = "done", !.res = x.res]}
       /\ reqs' = [reqs EXCEPT ![e.s.req] = ExecHistory(@, e, Tables, x)]
  /\ UNCHANGED <<queue, locked, crashed, faults>>

\* the store fails the insert or the status update of a checkout (SQLITE_FULL, SQLITE_IOERR):
\* the statement changes nothing and its callback gets err
Fail(e) ==
  /\ ~crashed
  /\ faults < MaxFaults
  /\ e \in inflight
  /\ e.phase = "started"
  /\ e.s.op \in {"INSERT_PURCHASE", "UPDATE_SOLD"}
  /\ inflight' = (inflight \ {e}) \cup {[e EXCEPT !.phase = "done", !.res.err = TRUE]}
  /\ reqs' = [reqs EXCEPT ![e.s.req].h_fault = TRUE,
                          ![e.s.req].h_failed = IF reqs[e.s.req].kind = "purchase" /\
                                                   e.s.op = "INSERT_PURCHASE"
                                                  THEN @ \cup {e.s.idx} ELSE @]
  /\ faults' = faults + 1
  /\ UNCHANGED <<products, cart, purchases, nextId, inTxn, snap, queue, locked, crashed>>

\* an uncaught exception ends the process, the requests being left as rs; sqlite rolls the
\* open transaction back
Die(rs) ==
  /\ crashed' = TRUE
  /\ SetTables(IF inTxn THEN snap ELSE Tables)
  /\ inTxn' = FALSE
  /\ snap' = NoSnap
  /\ queue' = <<>>
  /\ inflight' = {}
  /\ locked' = FALSE
  /\ reqs' = rs
  /\ UNCHANGED faults

Crash == Die(reqs)

\* the completion of a statement on the event loop: its callback runs (an error with no
\* callback is emitted as an 'error' event nobody listens to), the statement stops pending,
\* and the queue is processed
Complete(e) ==
  /\ ~crashed
  /\ e \in inflight
  /\ e.phase = "done"
  /\ LET out == IF e.s.cb THEN Callback(e, reqs[e.s.req])
                ELSE [Out(reqs[e.s.req]) EXCEPT !.crash = e.res.err]
     IN IF out.crash
          THEN IF out.req.h_double THEN Die([reqs EXCEPT ![e.s.req].h_double = TRUE]) ELSE Crash
        ELSE /\ reqs' = [reqs EXCEPT ![e.s.req] =
                          [out.req EXCEPT !.h_db = @ \/ out.sched # <<>>,
                                          !.h_begins = @ + CountOps(out.sched, {"BEGIN"}),
                                          !.h_ends = @ + CountOps(out.sched, {"COMMIT", "ROLLBACK"})]]
             /\ LET c1 == ScheduleAll(conn, out.sched, out.ser)
                IN SetConn(Process([c1 EXCEPT !.fl = @ \ {e}]))
             /\ UNCHANGED <<products, cart, purchases, nextId, inTxn, snap, crashed, faults>>

Next ==
  \/ \E u \in Users, ids \in Batches : Purchase(u, ids)
  \/ \E u \in Users, pid \in ProductIds, pm \in PaymentMethods : BuyNow(u, pid, pm)
  \/ \E u \in Users, pid \in ProductIds : AddToCart(u, pid)
  \/ \E u \in Users, pid \in Products : RemoveFromCart(u, pid)
  \/ \E u \in Users : GetCart(u)
  \/ \E u \in Users : GetPurchases(u)
  \/ \E u \in Users, pid \in Products : \E price \in {0, EditPriceOf(pid)} :
        UpdateProduct(u, pid, price)
  \/ \E u \in Users, pid \in Products : DeleteProduct(u, pid)
  \/ \E e \in inflight : Exec(e)
  \/ \E e \in inflight : Complete(e)

Spec == Init /\ [][Next]_vars

\* the checkout routes and the product delete on a store that may fail a statement
NextFaults ==
  \/ \E u \in Users, ids \in Batches : Purchase(u, ids)
  \/ \E u \in Users, pid \in ProductIds, pm \in PaymentMethods : BuyNow(u, pid, pm)
  \/ \E u \in Users, pid \in Products : DeleteProduct(u, pid)
  \/ \E e \in inflight : Exec(e)
  \/ \E e \in inflight : Fail(e)
  \/ \E e \in inflight : Complete(e)

SpecFaults == Init /\ [][NextFaults]_vars


\* ---------------------------------------------------------------- vocabulary of the claims
Checkout(r) == reqs[r].kind \in {"purchase", "buyNow"}

RowsOf(p) == {row \in purchases : row.product_id = p}

CheckoutInFlight == \E r \in DOMAIN reqs : Checkout(r) /\ InFlight(r)

\* only POST /api/purchase and POST /api/buy-now requests have been received
OnlyCheckouts == \A r \in DOMAIN reqs : Checkout(r)

AnyInFlight == \E r \in DOMAIN reqs : InFlight(r)

\* nothing is running and nothing can run any more on the connection
Idle == ~crashed /\ inflight = {} /\ queue = <<>>

Unavailable(resp) == resp.code \in {400, 404} /\
  \/ resp.msg = "Product not found or unavailable"
  \/ \E i \in DOMAIN resp.details : resp.details[i].kind = "unavailable"

\* the body of a checkout request fails the handler's validation
InvalidBody(rq) ==
  \/ rq.kind = "purchase" /\ rq.product_ids = <<>>
  \/ rq.kind = "buyNow" /\ (rq.product_ids = <<>> \/ rq.payment_method = "")

\* a checkout request with a valid body, of which the store failed no statement
Regular(r) == ~InvalidBody(reqs[r]) /\ ~reqs[r].h_fault

\* C1: no double-sale: in every state reached by interleaving POST /api/purchase and
\* POST /api/buy-now requests, each product id is referenced by at most one row of the
\* purchases table.  Stated here for what C1 least demands: once every request is over and
\* nothing is uncommitted, no product is referenced by purchases rows of two different buyers.
C1_NoCommittedSaleToTwoBuyers ==
  (OnlyCheckouts /\ ~AnyInFlight /\ ~inTxn /\ ~crashed) =>
     \A p \in Products : \A r1, r2 \in RowsOf(p) : r1.buyer_id = r2.buyer_id


Owns(u, p) == products[p].exists /\ products[p].user_id = u

\* r ran alone: nothing was in flight when it arrived and no request arrived after it
RanAlone(r) == reqs[r].h_with = {} /\ r = Len(reqs)

\* C2: two concurrent checkout requests by two different non-owner buyers for the same
\* available product: exactly one is answered with success, the other with a 'product not
\* found or unavailable' error.
C2_ExactlyOneWins ==
  \A r1, r2 \in DOMAIN reqs :
    (/\ r1 < r2 /\ Checkout(r1) /\ Checkout(r2)
     /\ reqs[r1].user # reqs[r2].user
     /\ Len(reqs[r1].product_ids) = 1 /\ reqs[r2].product_ids = reqs[r1].product_ids
     /\ ~Owns(reqs[r1].user, reqs[r1].product_ids[1])
     /\ ~Owns(reqs[r2].user, reqs[r1].product_ids[1])
     /\ reqs[r1].h_avail # {} /\ reqs[r2].h_avail # {}
     /\ r1 \in reqs[r2].h_with
     /\ Regular(r1) /\ Regular(r2)
     /\ ~crashed /\ ~InFlight(r1) /\ ~InFlight(r2))
    => \/ Succeeded(reqs[r1]) /\ Unavailable(reqs[r2].resp)
       \/ Succeeded(reqs[r2]) /\ Unavailable(reqs[r1].resp)

\* C3: atomicity of sale: after any sequence of purchase and buyNow requests, whenever no
\* checkout request is in flight, a product has status 'sold' if and only if a purchases row
\* references it.
C3_SoldIffPurchased ==
  (OnlyCheckouts /\ ~crashed /\ ~CheckoutInFlight) =>
     \A p \in Products : (products[p].status = "sold") <=> (RowsOf(p) # {})

\* C4: all-or-nothing batch: once a purchase batch with a failing id has been answered and is
\* over, no product has changed status, no purchases row exists for the batch and no cart
\* entry of the buyer has been removed.
C4_AllOrNothing ==
  \A r \in DOMAIN reqs :
    (/\ reqs[r].kind = "purchase" /\ reqs[r].resp.code = 400
     /\ RanAlone(r) /\ ~crashed /\ ~InFlight(r))
    => /\ products = reqs[r].h_tables.products
       /\ purchases = reqs[r].h_tables.purchases
       /\ {c \in CartPairs(reqs[r].h_tables) : c[1] = reqs[r].user} \subseteq CartPairs(Tables)

\* C5: every POST /api/purchase with a non-empty product_ids array is answered: once the
\* connection has nothing left to run, no purchase request is still waiting for its response.
C5_PurchaseAnswered ==
  Idle => \A r \in DOMAIN reqs : reqs[r].kind = "purchase" => reqs[r].resp.code # 0

C7_Durable ==
  \A r \in DOMAIN reqs :
    (Succeeded(reqs[r]) /\ ~InFlight(r)) =>
      /\ \A id \in reqs[r].h_rows :
           \E row \in purchases : row.id = id /\ row.buyer_id = reqs[r].user
      /\ \A p \in IdsOf(reqs[r]) : products[p].status = "sold"

\* what does hold of C7: among POST /api/purchase and POST /api/buy-now requests alone a
\* reported sale is durable (two transactions never overlap: the second BEGIN ends the process
\* before either request is answered)
DurableAmongCheckouts == OnlyCheckouts => C7_Durable

\* C8: a GET /api/cart by U that arrives after U was answered with success for P returns a
\* list that does not contain P.
C8_NotInCartListing ==
  \A r \in DOMAIN reqs :
    (reqs[r].kind = "getCart" /\ reqs[r].resp.code = 200) =>
      reqs[r].resp.list \cap reqs[r].h_after = {}

\* C9: whenever no request is in flight, no cart row references a sold product.
C9_NoCartRowOnSold ==
  (~crashed /\ ~AnyInFlight) => \A c \in CartPairs(Tables) : products[c[2]].status # "sold"

\* C10: a checkout request for a product that was sold by a request already over when it
\* arrived is answered with a 'not found or unavailable' error and changes no state.
C10_SoldStaysSold ==
  \A r \in DOMAIN reqs :
    (/\ Checkout(r) /\ IdsOf(reqs[r]) \cap reqs[r].h_soldDone # {}
     /\ Regular(r) /\ RanAlone(r) /\ Idle)
    => /\ Unavailable(reqs[r].resp)
       /\ Tables = reqs[r].h_tables
       /\ ~inTxn

\* a buyNow request that passed validation, ran alone on an available product of another
\* user, and was failed no statement by the store
BuyNowAloneOnAvailable(r) ==
  /\ reqs[r].kind = "buyNow" /\ reqs[r].h_db /\ RanAlone(r)
  /\ reqs[r].h_avail # {}
  /\ reqs[r].h_tables.products[reqs[r].product_ids[1]].user_id # reqs[r].user
  /\ ~reqs[r].h_fault

\* C11: a buyNow(buyer, P, paymentMethod) on an available product P of another user, run with
\* no other request in flight, sets P's status to 'sold', inserts exactly one purchases row
\* (buyer, P, P's owner, P's price) and answers with that row's id as purchase_id, P's price
\* as total_amount, the product and the given payment_method.
C11_BuyNowAlone ==
  \A r \in DOMAIN reqs :
    (BuyNowAloneOnAvailable(r) /\ Idle) =>
      LET rq == reqs[r]
          p == rq.product_ids[1]
          t == rq.h_tables
      IN /\ products = [t.products EXCEPT ![p].status = "sold"]
         /\ \E row \in purchases :
              /\ row \notin t.purchases /\ purchases = t.purchases \cup {row}
              /\ row.buyer_id = rq.user /\ row.product_id = p
              /\ row.seller_id = t.products[p].user_id /\ row.price = t.products[p].price
              /\ rq.resp.purchase_id = row.id
         /\ rq.resp.code = 200
         /\ rq.resp.total_amount = t.products[p].price
         /\ rq.resp.product = t.products[p]
         /\ rq.resp.payment_method = rq.payment_method
         /\ ~inTxn

\* such a buyNow request has run to its end
C11_Witness ==
  \E r \in DOMAIN reqs : BuyNowAloneOnAvailable(r) /\ Idle /\ reqs[r].resp.code = 200

\* C12: a buyNow request answered with an error (validation, not found or unavailable, own
\* product, or a store failure on the insert or on the status update), run with no other
\* request in flight, leaves the products, cart and purchases tables as they were before it
\* and leaves no transaction open.
C12_BuyNowErrorNoEffect ==
  \A r \in DOMAIN reqs :
    (/\ reqs[r].kind = "buyNow" /\ reqs[r].resp.code \notin {0, 200}
     /\ RanAlone(r) /\ Idle)
    => Tables = reqs[r].h_tables /\ ~inTxn

\* a buyNow request that had opened its transaction was failed a statement and is over
C12_Witness ==
  \E r \in DOMAIN reqs :
    /\ reqs[r].kind = "buyNow" /\ reqs[r].resp.code = 500 /\ reqs[r].h_fault
    /\ RanAlone(r) /\ Idle

\* C13: a purchase request whose product_ids is missing, not an array or empty, and a buyNow
\* request with a missing product_id or payment_method, is answered with 400 and issues no
\* statement on the database.
C13_ValidationNoAccess ==
  \A r \in DOMAIN reqs :
    InvalidBody(reqs[r]) => reqs[r].resp.code = 400 /\ ~reqs[r].h_db

\* a buyNow request naming a product but no payment method has been received
C13_Witness ==
  \E r \in DOMAIN reqs :
    /\ reqs[r].kind = "buyNow" /\ reqs[r].product_ids # <<>> /\ reqs[r].payment_method = ""
    /\ reqs[r].resp.code = 400

\* C14: error status of the checkout routes: a request rejected because the product is already
\* sold is answered with 400, one rejected because the product does not exist with 404, and a
\* self-purchase with 400 or 403.  Stated for a request for one product that ran alone.
C14_ErrorStatus ==
  \A r \in DOMAIN reqs :
    (/\ Checkout(r) /\ reqs[r].h_db /\ Len(reqs[r].product_ids) = 1
     /\ RanAlone(r) /\ reqs[r].resp.code \notin {0, 200} /\ ~reqs[r].h_fault)
    => LET row == reqs[r].h_tables.products[reqs[r].product_ids[1]]
       IN /\ row.status = "sold" => reqs[r].resp.code = 400
          /\ ~row.exists => reqs[r].resp.code = 404
          /\ (row.status = "available" /\ row.user_id = reqs[r].user)
               => reqs[r].resp.code \in {400, 403}

\* C15: sale snapshot: the purchases row a checkout inserted for a product has the seller_id
\* and the price the product had in the state in which the checkout turned its status to
\* 'sold', also when the owner edits the price while the checkout is in flight.
C15_SaleSnapshot ==
  ~crashed =>
    \A r \in DOMAIN reqs : \A t \in reqs[r].h_sold : \A row \in purchases :
      (row.id \in reqs[r].h_rows /\ row.product_id = t[1])
        => row.seller_id = t[2] /\ row.price = t[3]

\* the routes that are not a checkout and write to the database
OtherWrites == {"updateProduct", "deleteProduct", "addToCart", "removeFromCart"}

\* C16: the purchase ledger is append-only: no statement of a product edit, product delete,
\* add-to-cart or remove-from-cart request changes the purchases table.
C16_LedgerAppendOnly ==
  \A r \in DOMAIN reqs : reqs[r].kind \in OtherWrites => ~reqs[r].h_wrote

\* an owner's delete of a product ran, and was answered, when the ledger held a row for it
C16_Witness ==
  \E r \in DOMAIN reqs :
    /\ reqs[r].kind = "deleteProduct" /\ reqs[r].resp.code = 200 /\ reqs[r].h_seen
    /\ \E row \in purchases : row.product_id = reqs[r].product_ids[1]

\* an edit or delete request by a user who does not own the product changes no product and
\* is answered with an error
OnlyOwnerEdits ==
  \A r \in DOMAIN reqs :
    (/\ reqs[r].kind \in {"updateProduct", "deleteProduct"}
     /\ OwnerOf(reqs[r].product_ids[1]) # reqs[r].user)
    => reqs[r].h_prod = {} /\ reqs[r].resp.code \in {0, 400, 404}

\* C17: a product record is changed only by its owner or by a checkout: an edit or delete by
\* a non-owner changes nothing and is answered with an error, and no statement of a checkout
\* request changes the existence, the owner or the price of a product (the store failing no
\* statement).
C17_OnlyOwnerOrSale ==
  (~crashed /\ faults = 0) =>
    /\ OnlyOwnerEdits
    /\ \A r \in DOMAIN reqs : Checkout(r) => reqs[r].h_prod = {}

\* two add-to-cart requests of one user for one product, the first received with nothing in
\* flight and the second after the first was over
AddedTwice(r1, r2) ==
  /\ r1 < r2 /\ reqs[r1].kind = "addToCart" /\ reqs[r2].kind = "addToCart"
  /\ reqs[r1].user = reqs[r2].user /\ reqs[r1].product_ids = reqs[r2].product_ids
  /\ reqs[r1].resp.code = 200 /\ reqs[r2].resp.code = 200
  /\ reqs[r1].h_with = {} /\ RanAlone(r2) /\ Idle

\* C18: cart uniqueness: there is at most one cart row per (user id, product id) pair, and
\* adding the same available product twice leaves the cart that adding it once leaves.
C18_CartUnique ==
  /\ \A c \in CartPairs(Tables) : cart[c] = 1
  /\ \A r1, r2 \in DOMAIN reqs :
       AddedTwice(r1, r2) =>
         /\ cart = reqs[r2].h_tables.cart
         /\ CartPairs(Tables) = CartPairs(reqs[r1].h_tables)
                                  \cup {<<reqs[r1].user, reqs[r1].product_ids[1]>>}

\* a product was added twice to a cart that already held it
C18_Witness ==
  \E r1, r2 \in DOMAIN reqs :
    AddedTwice(r1, r2) /\ <<reqs[r1].user, reqs[r1].product_ids[1]>> \in CartPairs(reqs[r1].h_tables)

\* two remove-from-cart requests of one user for one product, one after the other
RemovedTwice(r1, r2) ==
  /\ r1 < r2 /\ reqs[r1].kind = "removeFromCart" /\ reqs[r2].kind = "removeFromCart"
  /\ reqs[r1].user = reqs[r2].user /\ reqs[r1].product_ids = reqs[r2].product_ids
  /\ reqs[r1].h_with = {} /\ RanAlone(r2) /\ Idle

\* the tables t less the cart rows of user u for product p
WithoutEntry(t, u, p) ==
  [t EXCEPT !.cart = [c \in CartPairs(t) \ {<<u, p>>} |-> t.cart[c]]]

\* C19: DELETE /api/cart/:productId removes only the caller's entry for the product, succeeds
\* when the entry is absent, and applied twice leaves the state that applying it once leaves;
\* no other cart row and no product or purchases row changes.
C19_RemoveIdempotent ==
  /\ \A r \in DOMAIN reqs :
       reqs[r].kind = "removeFromCart" =>
         /\ ~reqs[r].h_other
         /\ reqs[r].resp.code \in {0, 200}
         /\ (RanAlone(r) /\ Idle) =>
              /\ reqs[r].resp.code = 200
              /\ Tables = WithoutEntry(reqs[r].h_tables, reqs[r].user, reqs[r].product_ids[1])
  /\ \A r1, r2 \in DOMAIN reqs :
       RemovedTwice(r1, r2) =>
         Tables = WithoutEntry(reqs[r1].h_tables, reqs[r1].user, reqs[r1].product_ids[1])

\* an entry that was in the cart was removed, and removed again when absent
C19_Witness ==
  \E r1, r2 \in DOMAIN reqs :
    /\ RemovedTwice(r1, r2)
    /\ <<reqs[r1].user, reqs[r1].product_ids[1]>> \in CartPairs(reqs[r1].h_tables)
    /\ \E c \in CartPairs(Tables) : c[2] = reqs[r1].product_ids[1]
    /\ reqs[r1].resp.code = 200 /\ reqs[r2].resp.code = 200

\* C20: a purchase batch rejected with 400 'Purchase failed' lists in details one entry for
\* each position of the batch that failed (lookup found nothing, own product, or insert
\* failure) and none for a position that passed; a batch answered with success reports
\* purchased equal to the number of product ids.
C20_Details ==
  \A r \in DOMAIN reqs :
    reqs[r].kind = "purchase" =>
      LET rq == reqs[r] IN
      /\ (rq.resp.code = 400 /\ rq.resp.msg = "Purchase failed") =>
           /\ rq.h_failed \cup rq.h_passed = DOMAIN rq.product_ids
           /\ rq.h_failed \cap rq.h_passed = {}
           /\ \A p \in Products :
                Cardinality({i \in DOMAIN rq.resp.details : rq.resp.details[i].pid = p})
                  = Cardinality({i \in rq.h_failed : rq.product_ids[i] = p})
      /\ rq.resp.code = 200 =>
           /\ rq.resp.purchased = Len(rq.product_ids)
           /\ rq.h_passed = DOMAIN rq.product_ids

\* a batch of two was rejected with one position failed and the other passed
C20_Witness ==
  \E r \in DOMAIN reqs :
    /\ reqs[r].kind = "purchase" /\ reqs[r].resp.msg = "Purchase failed"
    /\ reqs[r].h_failed # {} /\ reqs[r].h_passed # {}

\* the status update of a product of batch r failed while the purchases row the batch
\* inserted for that product is committed
Orphan(r) ==
  \E e \in inflight :
    /\ e.s.req = r /\ e.s.op = "UPDATE_SOLD" /\ e.phase = "done" /\ e.res.err
    /\ ~inTxn
    /\ \E row \in purchases : row.id \in reqs[r].h_rows /\ row.product_id = e.s.pid

\* C21: under a store failure during a batch purchase no orphan is left and the failure is
\* reported to the caller as an error: a batch of which the store failed a statement is not
\* answered with success, and no purchases row of it is committed for a product whose status
\* update failed.
C21_NoOrphanOnFailure ==
  ~crashed =>
    \A r \in DOMAIN reqs :
      (reqs[r].kind = "purchase" /\ reqs[r].h_fault) => reqs[r].resp.code # 200 /\ ~Orphan(r)

\* the second half of C21 by itself (it does not hold either: the COMMIT may run before the
\* status update that fails)
NoOrphan == ~crashed => \A r \in DOMAIN reqs : ~Orphan(r)

\* C22: every BEGIN TRANSACTION of a checkout request is followed by exactly one COMMIT or
\* ROLLBACK of the same request, and no transaction is open when no checkout is in flight.
\* Stated for the states in which the connection has nothing left to run.
C22_TxnClosed ==
  /\ \A r \in DOMAIN reqs : Checkout(r) =>
       /\ reqs[r].h_ends <= reqs[r].h_begins
       /\ Idle => reqs[r].h_ends = reqs[r].h_begins
  /\ (~crashed /\ ~CheckoutInFlight) => ~inTxn

\* nothing is left to run, the process having died or not
Quiescent == inflight = {} /\ queue = <<>>

\* two overlapping checkout requests of different buyers over disjoint sets of products, all
\* of them available, of other users and named once
DisjointPair(r1, r2) ==
  /\ r1 < r2 /\ Checkout(r1) /\ Checkout(r2) /\ Regular(r1) /\ Regular(r2)
  /\ reqs[r1].user # reqs[r2].user
  /\ IdsOf(reqs[r1]) \cap IdsOf(reqs[r2]) = {}
  /\ r1 \in reqs[r2].h_with
  /\ \A r \in {r1, r2} :
       /\ reqs[r].h_avail = IdsOf(reqs[r])
       /\ Cardinality(IdsOf(reqs[r])) = Len(reqs[r].product_ids)
       /\ \A p \in IdsOf(reqs[r]) : OwnerOf(p) # reqs[r].user

\* C23: isolation: two checkout requests of different buyers over disjoint products end, in
\* every interleaving, as each would have run alone: both are answered with success, each
\* product is sold, and each has its one purchases row.
C23_Isolation ==
  \A r1, r2 \in DOMAIN reqs :
    (DisjointPair(r1, r2) /\ Quiescent /\ Len(reqs) = 2) =>
      \A r \in {r1, r2} :
        /\ Succeeded(reqs[r])
        /\ \A p \in IdsOf(reqs[r]) :
             /\ products[p].status = "sold"
             /\ \E row \in purchases : row.product_id = p /\ row.buyer_id = reqs[r].user

\* C24: a purchase request sends at most one response and issues at most one COMMIT or
\* ROLLBACK.
C24_AtMostOneResponse ==
  \A r \in DOMAIN reqs :
    reqs[r].kind = "purchase" => ~reqs[r].h_double /\ reqs[r].h_ends <= 1

\* a batch of two whose two inserts both succeeded has been answered and has ended its
\* transaction
C24_Witness ==
  \E r \in DOMAIN reqs :
    /\ reqs[r].kind = "purchase" /\ reqs[r].h_passed = {1, 2}
    /\ reqs[r].resp.code = 200 /\ reqs[r].h_ends = 1 /\ Idle

\* C25: a purchase batch that names the same available product more than once creates at
\* most one purchases row for it.
C25_OneRowPerProduct ==
  \A r \in DOMAIN reqs :
    (reqs[r].kind = "purchase" /\ ~crashed /\ ~inTxn /\ ~InFlight(r)) =>
      \A p \in Products :
        Cardinality({row \in purchases : row.id \in reqs[r].h_rows /\ row.product_id = p}) <= 1

\* C26: product status is monotonic: once a lookup has found a product 'sold', the product
\* is not 'available' afterwards.
C26_StatusMonotonic ==
  (Idle /\ ~inTxn) =>
    \A r \in DOMAIN reqs : \A p \in reqs[r].h_sawSold : products[p].status # "available"

\* an add-to-cart request naming a product, received with nothing in flight, is over
AddToCartAlone(r) ==
  /\ reqs[r].kind = "addToCart" /\ reqs[r].product_ids # <<>>
  /\ RanAlone(r) /\ Idle

\* C27: POST /api/cart for a product that does not exist or is sold is answered with 404,
\* and for an available product of the caller with 400, the cart unchanged in both cases; no
\* cart row pairs a user with a product that user owns.
C27_AddToCartGuarded ==
  /\ \A c \in CartPairs(Tables) : OwnerOf(c[2]) # c[1]
  /\ \A r \in DOMAIN reqs :
       AddToCartAlone(r) =>
         LET row == reqs[r].h_tables.products[reqs[r].product_ids[1]]
         IN /\ row.status # "available" =>
                 reqs[r].resp.code = 404 /\ cart = reqs[r].h_tables.cart
            /\ (row.status = "available" /\ row.user_id = reqs[r].user) =>
                 reqs[r].resp.code = 400 /\ cart = reqs[r].h_tables.cart

\* an add-to-cart for a product a buyNow had sold was refused
C27_Witness ==
  \E r1, r2 \in DOMAIN reqs :
    /\ reqs[r1].kind = "buyNow" /\ Succeeded(reqs[r1])
    /\ AddToCartAlone(r2) /\ reqs[r2].product_ids = reqs[r1].product_ids
    /\ reqs[r2].resp.code = 404

\* C28: frame of a successful batch: no statement of a purchase answered with success
\* changes anything but the status of the products of the batch, purchases rows of the buyer
\* for them and the buyer's cart rows for them; run alone, the batch leaves every other
\* product and every other cart row as it was.
C28_SuccessFrame ==
  \A r \in DOMAIN reqs :
    (reqs[r].kind = "purchase" /\ Succeeded(reqs[r])) =>
      /\ ~reqs[r].h_out
      /\ (RanAlone(r) /\ Idle) =>
           LET t == reqs[r].h_tables
               ids == IdsOf(reqs[r])
           IN /\ \A p \in Products \ ids : products[p] = t.products[p]
              /\ \A p \in ids : products[p] = [t.products[p] EXCEPT !.status = "sold"]
              /\ t.purchases \subseteq purchases
              /\ \A row \in purchases \ t.purchases :
                   row.product_id \in ids /\ row.buyer_id = reqs[r].user
              /\ CartPairs(Tables) =
                   {c \in CartPairs(t) : ~(c[1] = reqs[r].user /\ c[2] \in ids)}
              /\ \A c \in CartPairs(Tables) : cart[c] = t.cart[c]

\* a buyer holding two cart rows bought the product of one of them
C28_Witness ==
  \E r \in DOMAIN reqs :
    /\ reqs[r].kind = "purchase" /\ Succeeded(reqs[r]) /\ RanAlone(r) /\ Idle
    /\ \E c \in CartPairs(reqs[r].h_tables) : c[1] = reqs[r].user /\ c[2] \notin IdsOf(reqs[r])
    /\ \E c \in CartPairs(reqs[r].h_tables) : c[1] = reqs[r].user /\ c[2] \in IdsOf(reqs[r])

\* C29: purchase history is complete: with nothing in flight, every purchases row references
\* a product that exists, and GET /api/purchases lists, for every buyer, every purchases row
\* of that buyer.
C29_HistoryComplete ==
  /\ (Idle /\ ~inTxn) =>
       /\ \A row \in purchases : products[row.product_id].exists
       /\ \A u \in Users :
            SelectPurchases(Tables, u) = {row.id : row \in {x \in purchases : x.buyer_id = u}}
  /\ \A r \in DOMAIN reqs :
       (reqs[r].kind = "getPurchases" /\ reqs[r].resp.code = 200 /\ RanAlone(r) /\ Idle /\ ~inTxn)
         => reqs[r].resp.list = {row.id : row \in {x \in purchases : x.buyer_id = reqs[r].user}}

====
